---- MODULE Spec2Model ----
(***************************************************************************)
(* pybaseball_live: the play-event flattener (_game_to_df and its helpers) *)
(* and the concurrent multi-game orchestrator (games), src/pybaseball_live *)
(* /game.py.                                                               *)
(*                                                                         *)
(* Python values are modelled as tagged records, so that values of         *)
(* different Python types can be compared: None, NaN, booleans, integers   *)
(* and strings are one-field records; a dict is a function from its keys   *)
(* (strings) to values; a list is a sequence.  A raised exception is the   *)
(* value Raise(class), and it propagates through every lookup made on it.  *)
(***************************************************************************)
EXTENDS Integers, Sequences, FiniteSets, TLC

VARIABLES
    doc,        \* the GameDocument handed to _game_to_df
    results,    \* what the successive _game_to_df(doc) calls returned
    game_ids,   \* the argument of games()
    responses,  \* per submitted task: what requests.get answers for it
    futures,    \* per submitted task: "pending" | "running" | "finished"
    outcome,    \* per finished task: the value or exception its future holds
    yielded,    \* the tasks as_completed has already handed to the loop
    game_data,  \* the result mapping being collected by games()
    printed,    \* the messages printed by the except branch, as task indexes
    pc          \* where games() is: "idle" | "submit" | "collect" | "returned"

vars == <<doc, results, game_ids, responses, futures, outcome, yielded,
          game_data, printed, pc>>

flatVars == <<doc, results>>
gamesVars == <<game_ids, responses, futures, outcome, yielded, game_data,
               printed, pc>>

----------------------------------------------------------------------------
(* Python values *)

None == [none |-> TRUE]
NaN == [nan |-> TRUE]
PyTrue == [bool |-> TRUE]
PyFalse == [bool |-> FALSE]
PyBool(b) == [bool |-> b]
PyInt(i) == [int |-> i]
PyStr(s) == [str |-> s]
EmptyDict == [k \in {} |-> None]
Raise(cls) == [raise |-> cls]

IsRaise(v) == DOMAIN v = {"raise"}

\* bool(v) for the values a document holds
Truthy(v) == v \notin {None, PyFalse, PyInt(0), PyStr("")}

\* d.get(k): None when the key is absent; AttributeError when d is None
Get(d, k) ==
    IF IsRaise(d) THEN d
    ELSE IF d = None THEN Raise("AttributeError")
    ELSE IF k \in DOMAIN d THEN d[k] ELSE None

\* GetOr with a fault seeded: d.get(k) with the {} default forgotten
GetOrNoDefault(d, k) == Get(d, k)

\* d.get(k, {}): the empty dict when the key is absent
GetOr(d, k) ==
    IF IsRaise(d) THEN d
    ELSE IF d = None THEN Raise("AttributeError")
    ELSE IF k \in DOMAIN d THEN d[k] ELSE EmptyDict

\* d.get(k, []) for a key that holds a list
GetList(d, k) ==
    IF k \in DOMAIN d THEN d[k] ELSE <<>>

\* k in d
HasKey(d, k) ==
    IF IsRaise(d) THEN d
    ELSE IF d = None THEN Raise("TypeError")
    ELSE PyBool(k \in DOMAIN d)

\* {**a, **b}: the keys of b override those of a
Merge(a, b) == b @@ a

\* a dict literal one of whose values raised does not come to exist
AnyRaise(rec) == \E k \in DOMAIN rec : IsRaise(rec[k])
FirstRaise(rec) == rec[CHOOSE k \in DOMAIN rec : IsRaise(rec[k])]

----------------------------------------------------------------------------
(* _get_team_data *)

TeamSide(is_top_inning, forBatter) ==
    IF forBatter
    THEN (IF Truthy(is_top_inning) THEN "away" ELSE "home")
    ELSE (IF Truthy(is_top_inning) THEN "home" ELSE "away")

GetTeamData(about, play) ==
    LET teams == GetOr(GetOr(GetOr(play, "game"), "gameData"), "teams")
        is_top_inning == Get(about, "isTopInning")
        batter_team == TeamSide(is_top_inning, TRUE)
        pitcher_team == TeamSide(is_top_inning, FALSE)
    IN  [batter_team |-> Get(GetOr(teams, batter_team), "abbreviation"),
         batter_team_id |-> Get(GetOr(teams, batter_team), "id"),
         pitcher_team |-> Get(GetOr(teams, pitcher_team), "abbreviation"),
         pitcher_team_id |-> Get(GetOr(teams, pitcher_team), "id")]

----------------------------------------------------------------------------
(* _get_count_data; n is the 0-based index of the event, so the event      *)
(* before it, play_events[n - 1] in the source, is play_events[n] here.    *)

GetCountData(play, event, n) ==
    LET play_events == GetList(play, "playEvents")
        count == GetOr(event, "count")
        prev_count ==
            IF n = 0
            THEN [strikes |-> PyInt(0), balls |-> PyInt(0),
                  outs |-> Get(count, "outs")]
            ELSE GetOr(play_events[n], "count")
    IN  [strikes |-> Get(prev_count, "strikes"),
         balls |-> Get(prev_count, "balls"),
         outs |-> Get(prev_count, "outs"),
         strikes_after |-> Get(count, "strikes"),
         balls_after |-> Get(count, "balls"),
         outs_after |-> Get(count, "outs")]

----------------------------------------------------------------------------
(* _get_pitch_data, _get_hit_data *)

GetPitchData(pitch_data) ==
    LET coordinates == GetOr(pitch_data, "coordinates")
        breaks == GetOr(pitch_data, "breaks")
    IN  [start_speed |-> Get(pitch_data, "startSpeed"),
         end_speed |-> Get(pitch_data, "endSpeed"),
         sz_top |-> Get(pitch_data, "strikeZoneTop"),
         sz_bot |-> Get(pitch_data, "strikeZoneBottom"),
         x |-> Get(coordinates, "x"),
         y |-> Get(coordinates, "y"),
         ax |-> Get(coordinates, "aX"),
         ay |-> Get(coordinates, "aY"),
         az |-> Get(coordinates, "aZ"),
         pfxx |-> Get(coordinates, "pfxX"),
         pfxz |-> Get(coordinates, "pfxZ"),
         px |-> Get(coordinates, "pX"),
         pz |-> Get(coordinates, "pZ"),
         vx0 |-> Get(coordinates, "vX0"),
         vy0 |-> Get(coordinates, "vY0"),
         vz0 |-> Get(coordinates, "vZ0"),
         x0 |-> Get(coordinates, "x0"),
         y0 |-> Get(coordinates, "y0"),
         z0 |-> Get(coordinates, "z0"),
         zone |-> Get(pitch_data, "zone"),
         type_confidence |-> Get(pitch_data, "typeConfidence"),
         plate_time |-> Get(pitch_data, "plateTime"),
         extension |-> Get(pitch_data, "extension"),
         spin_rate |-> Get(breaks, "spinRate"),
         spin_direction |-> Get(breaks, "spinDirection"),
         vb |-> Get(breaks, "breakVertical"),
         ivb |-> Get(breaks, "breakVerticalInduced"),
         hb |-> Get(breaks, "breakHorizontal")]

GetHitData(hit_data) ==
    LET coordinates == GetOr(hit_data, "coordinates")
    IN  [launch_speed |-> Get(hit_data, "launchSpeed"),
         launch_angle |-> Get(hit_data, "launchAngle"),
         launch_distance |-> Get(hit_data, "totalDistance"),
         launch_location |-> Get(hit_data, "location"),
         trajectory |-> Get(hit_data, "trajectory"),
         hardness |-> Get(hit_data, "hardness"),
         hit_x |-> Get(coordinates, "coordX"),
         hit_y |-> Get(coordinates, "coordY")]

----------------------------------------------------------------------------
(* _get_ab_result *)

AbResultFields ==
    {"type_ab", "event", "event_type", "rbi", "away_score", "home_score",
     "is_out"}

\* GetAbResult with a fault seeded: the result is given to every event of the play
GetAbResultEvery(play, n, last_event_index) ==
    LET result == GetOr(play, "result")
    IN  [type_ab |-> Get(result, "type"),
         event |-> Get(result, "event"),
         event_type |-> Get(result, "eventType"),
         rbi |-> Get(result, "rbi"),
         away_score |-> Get(result, "awayScore"),
         home_score |-> Get(result, "homeScore"),
         is_out |-> Get(result, "isOut")]

GetAbResult(play, n, last_event_index) ==
    LET result == GetOr(play, "result")
    IN  IF n = last_event_index
        THEN [type_ab |-> Get(result, "type"),
              event |-> Get(result, "event"),
              event_type |-> Get(result, "eventType"),
              rbi |-> Get(result, "rbi"),
              away_score |-> Get(result, "awayScore"),
              home_score |-> Get(result, "homeScore"),
              is_out |-> Get(result, "isOut")]
        ELSE [k \in AbResultFields |-> NaN]

----------------------------------------------------------------------------
(* _extract_event_data *)

swing_list == {PyStr("X"), PyStr("F"), PyStr("S"), PyStr("D"), PyStr("E"),
               PyStr("T"), PyStr("W")}
whiff_list == {PyStr("S"), PyStr("T"), PyStr("W")}

\* CodeIn with a fault seeded: the flag is False, not NaN, when there is no code
CodeInFalse(code, codes) ==
    IF IsRaise(code) THEN code
    ELSE PyBool(code \in codes)

\* details.get("code") in codes if details.get("code") else np.nan
CodeIn(code, codes) ==
    IF IsRaise(code) THEN code
    ELSE IF Truthy(code) THEN PyBool(code \in codes) ELSE NaN

ExtractEventData(play, event, n, play_events) ==
    LET matchup == GetOr(play, "matchup")
        about == GetOr(play, "about")
        details == GetOr(event, "details")
    IN  Merge(Merge(Merge(Merge(Merge(Merge(Merge(
        [batter_id |-> Get(GetOr(matchup, "batter"), "id"),
         batter_name |-> Get(GetOr(matchup, "batter"), "fullName"),
         batter_hand |-> Get(GetOr(matchup, "batSide"), "code"),
         pitcher_id |-> Get(GetOr(matchup, "pitcher"), "id"),
         pitcher_name |-> Get(GetOr(matchup, "pitcher"), "fullName"),
         pitcher_hand |-> Get(GetOr(matchup, "pitchHand"), "code")],
        GetTeamData(about, play)),
        GetCountData(play, event, n)),
        [play_description |-> Get(details, "description"),
         play_code |-> Get(details, "code"),
         in_play |-> Get(details, "isInPlay"),
         is_strike |-> Get(details, "isStrike"),
         is_swing |-> CodeIn(Get(details, "code"), swing_list),
         is_whiff |-> CodeIn(Get(details, "code"), whiff_list),
         is_ball |-> Get(details, "isBall"),
         is_review |-> Get(details, "hasReview"),
         pitch_type |-> Get(GetOr(details, "type"), "code"),
         pitch_description |-> Get(GetOr(details, "type"), "description")]),
        GetPitchData(GetOr(event, "pitchData"))),
        GetHitData(GetOr(event, "hitData"))),
        [index_play |-> Get(event, "index"),
         play_id |-> Get(event, "playId"),
         start_time |-> Get(event, "startTime"),
         end_time |-> Get(event, "endTime"),
         is_pitch |-> Get(event, "isPitch"),
         type_type |-> Get(event, "type")]),
        GetAbResult(play, n, Len(play_events) - 1))

----------------------------------------------------------------------------
(* _extract_walk_data *)

remaining_fields ==
    {"play_description", "play_code", "in_play", "is_strike", "is_swing",
     "is_whiff", "is_ball", "is_review", "pitch_type", "pitch_description",
     "ab_number", "start_speed", "end_speed", "sz_top", "sz_bot", "x", "y",
     "ax", "ay", "az", "pfxx", "pfxz", "px", "pz", "vx0", "vy0", "vz0", "x0",
     "y0", "z0", "zone", "type_confidence", "plate_time", "extension",
     "spin_rate", "spin_direction", "vb", "ivb", "hb", "launch_speed",
     "launch_angle", "launch_distance", "launch_location", "trajectory",
     "hardness", "hit_x", "hit_y", "type_ab", "rbi", "away_score",
     "home_score", "is_out"}

\* ExtractWalkData with a fault seeded: event and event_type are blanked as well
ExtractWalkDataBlank(play, event, game) ==
    LET matchup == GetOr(play, "matchup")
        about == GetOr(play, "about")
        count == GetOr(event, "count")
        base_data ==
            Merge(Merge(
            [batter_id |-> Get(GetOr(matchup, "batter"), "id"),
             batter_name |-> Get(GetOr(matchup, "batter"), "fullName"),
             batter_hand |-> Get(GetOr(matchup, "batSide"), "code"),
             pitcher_id |-> Get(GetOr(matchup, "pitcher"), "id"),
             pitcher_name |-> Get(GetOr(matchup, "pitcher"), "fullName"),
             pitcher_hand |-> Get(GetOr(matchup, "pitchHand"), "code")],
            GetTeamData(about, play)),
            [strikes |-> Get(count, "strikes"),
             balls |-> Get(count, "balls"),
             outs |-> Get(count, "outs"),
             strikes_after |-> Get(count, "strikes"),
             balls_after |-> Get(count, "balls"),
             outs_after |-> Get(count, "outs"),
             index_play |-> Get(event, "index"),
             play_id |-> Get(event, "playId"),
             start_time |-> Get(event, "startTime"),
             end_time |-> Get(event, "endTime"),
             is_pitch |-> Get(event, "isPitch"),
             type_type |-> Get(event, "type")])
    IN  Merge(base_data,
              [field \in remaining_fields \cup {"event", "event_type"} |-> NaN])

ExtractWalkData(play, event, game) ==
    LET matchup == GetOr(play, "matchup")
        about == GetOr(play, "about")
        count == GetOr(event, "count")
        base_data ==
            Merge(Merge(
            [batter_id |-> Get(GetOr(matchup, "batter"), "id"),
             batter_name |-> Get(GetOr(matchup, "batter"), "fullName"),
             batter_hand |-> Get(GetOr(matchup, "batSide"), "code"),
             pitcher_id |-> Get(GetOr(matchup, "pitcher"), "id"),
             pitcher_name |-> Get(GetOr(matchup, "pitcher"), "fullName"),
             pitcher_hand |-> Get(GetOr(matchup, "pitchHand"), "code")],
            GetTeamData(about, play)),
            [strikes |-> Get(count, "strikes"),
             balls |-> Get(count, "balls"),
             outs |-> Get(count, "outs"),
             strikes_after |-> Get(count, "strikes"),
             balls_after |-> Get(count, "balls"),
             outs_after |-> Get(count, "outs"),
             index_play |-> Get(event, "index"),
             play_id |-> Get(event, "playId"),
             start_time |-> Get(event, "startTime"),
             end_time |-> Get(event, "endTime"),
             is_pitch |-> Get(event, "isPitch"),
             type_type |-> Get(event, "type"),
             event |-> Get(GetOr(play, "result"), "event"),
             event_type |-> Get(GetOr(play, "result"), "eventType")])
    IN  Merge(base_data, [field \in remaining_fields |-> NaN])

----------------------------------------------------------------------------
(* _extract_play_data *)

\* event.get("isPitch") or "call" in event.get("details", {})
IsPitchOrCall(event) ==
    IF Truthy(Get(event, "isPitch")) THEN PyTrue
    ELSE HasKey(GetOr(event, "details"), "call")

\* event.get("count", {}).get("balls") == 4
IsFourBalls(event) ==
    LET balls == Get(GetOr(event, "count"), "balls")
    IN  IF IsRaise(balls) THEN balls ELSE PyBool(balls = PyInt(4))

\* Classify with a fault seeded: the ball count is tested before the pitch/call test
ClassifyWalkFirst(event) ==
    LET walk == IsFourBalls(event)
        pitch == IsPitchOrCall(event)
    IN  IF IsRaise(walk) THEN walk
        ELSE IF walk = PyTrue THEN PyStr("walk")
        ELSE IF IsRaise(pitch) THEN pitch
        ELSE IF pitch = PyTrue THEN PyStr("pitch")
        ELSE PyStr("skip")

\* the branch the if / elif / else of the loop body takes for the event
Classify(event) ==
    LET pitch == IsPitchOrCall(event)
        walk == IsFourBalls(event)
    IN  IF IsRaise(pitch) THEN pitch
        ELSE IF pitch = PyTrue THEN PyStr("pitch")
        ELSE IF IsRaise(walk) THEN walk
        ELSE IF walk = PyTrue THEN PyStr("walk")
        ELSE PyStr("skip")

\* one pass of the loop body for the event at 0-based index n:
\* the record appended, Skip for `continue`, or the exception raised
Skip == [skip |-> TRUE]

\* the dict literal evaluated: the dict, or the exception one of its values raised
Evaluated(event_data) ==
    IF AnyRaise(event_data) THEN FirstRaise(event_data) ELSE event_data

Branch(branch, play, event, n, play_events, game) ==
    IF IsRaise(branch) THEN branch
    ELSE IF branch = PyStr("pitch")
         THEN Evaluated(ExtractEventData(play, event, n, play_events))
    ELSE IF branch = PyStr("walk")
         THEN Evaluated(ExtractWalkData(play, event, game))
    ELSE Skip

LoopBody(play, game, n) ==
    Branch(Classify(GetList(play, "playEvents")[n + 1]), play,
           GetList(play, "playEvents")[n + 1], n, GetList(play, "playEvents"),
           game)

\* ab_data after the pass that gave row, followed by the passes that gave
\* rest; <<exception>> when a pass raised (a record is never an exception)
Appended(row, rest) ==
    IF IsRaise(row) THEN <<row>>
    ELSE IF Len(rest) > 0 /\ IsRaise(rest[1]) THEN rest
    ELSE IF row = Skip THEN rest
    ELSE <<row>> \o rest

RECURSIVE LoopFrom(_, _, _)
LoopFrom(play, game, n) ==
    IF n >= Len(GetList(play, "playEvents")) THEN <<>>
    ELSE Appended(LoopBody(play, game, n), LoopFrom(play, game, n + 1))

ExtractPlayData(play, game) == LoopFrom(play, game, 0)

----------------------------------------------------------------------------
(* _game_to_df: the rows handed to pl.DataFrame, or the exception raised *)

Raised(rows) == Len(rows) > 0 /\ IsRaise(rows[1])

\* {**event_data, "game_id": game_id, "game_date": game_date} for the
\* records of one play, followed by those of the plays after it
Tagged(head, rest, game_id, game_date) ==
    IF Raised(head) THEN head
    ELSE IF Raised(rest) THEN rest
    ELSE [j \in 1..Len(head) |->
             Merge(head[j], [game_id |-> game_id, game_date |-> game_date])]
         \o rest

RECURSIVE FlattenFrom(_, _, _, _, _)
FlattenFrom(game, all_plays, i, game_id, game_date) ==
    IF i > Len(all_plays) THEN <<>>
    ELSE Tagged(ExtractPlayData(all_plays[i], game),
                FlattenFrom(game, all_plays, i + 1, game_id, game_date),
                game_id, game_date)

\* pl.DataFrame(flattened_data), or the exception the comprehension raised
Frame(flattened_data) ==
    IF Raised(flattened_data) THEN flattened_data[1]
    ELSE [rows |-> flattened_data]

\* Flattened with a fault seeded: game_data["liveData"]["plays"]["allPlays"], a
\* KeyError when the document has no list of plays
FlattenedStrict(game, game_id, game_date, plays) ==
    IF IsRaise(game_date) THEN game_date
    ELSE IF IsRaise(plays) THEN plays
    ELSE IF plays = None THEN Raise("TypeError")
    ELSE IF "allPlays" \notin DOMAIN plays THEN Raise("KeyError")
    ELSE Frame(FlattenFrom(game, GetList(plays, "allPlays"), 1, game_id,
                           game_date))

\* Flattened with a fault seeded: (... .get("plays") or {}), a JSON null in
\* the place of the plays container is taken for an empty one
FlattenedNullTolerant(game, game_id, game_date, plays) ==
    IF IsRaise(game_date) THEN game_date
    ELSE IF IsRaise(plays) THEN plays
    ELSE IF plays = None THEN Frame(<<>>)
    ELSE Frame(FlattenFrom(game, GetList(plays, "allPlays"), 1, game_id,
                           game_date))

Flattened(game, game_id, game_date, plays) ==
    IF IsRaise(game_date) THEN game_date
    ELSE IF IsRaise(plays) THEN plays
    ELSE IF plays = None THEN Raise("AttributeError")
    ELSE Frame(FlattenFrom(game, GetList(plays, "allPlays"), 1, game_id,
                           game_date))

GameToDf(game) ==
    Flattened(game, Get(game, "gamePk"),
              Get(GetOr(GetOr(game, "gameData"), "datetime"), "officialDate"),
              GetOr(GetOr(game, "liveData"), "plays"))

----------------------------------------------------------------------------
(* The document after _game_to_df ran on it.  The call and its callees    *)
(* write in place twice: ab_data.append, on the list made by               *)
(* _extract_play_data, and base_data.update, on the dict literal made by   *)
(* _extract_walk_data; every other statement reads (.get) or builds a new  *)
(* dict, and the module keeps no state between calls.                      *)

\* WalkEventAfter with a fault seeded: base_data is the event itself, so
\* update() writes the remaining fields into the document
WalkEventAfterAliased(event) ==
    Merge(event, [field \in remaining_fields |-> NaN])

\* an event after _extract_walk_data ran on it: update() wrote base_data
WalkEventAfter(event) == event

\* an event after the loop body ran on it
EventAfter(event) ==
    IF Classify(event) = PyStr("walk") THEN WalkEventAfter(event) ELSE event

\* a play after _extract_play_data ran on it: append() wrote ab_data
PlayAfter(play) ==
    IF "playEvents" \in DOMAIN play
    THEN [play EXCEPT !.playEvents = [n \in 1..Len(@) |-> EventAfter(@[n])]]
    ELSE play

DocAfter(game) ==
    IF HasKey(GetOr(GetOr(game, "liveData"), "plays"), "allPlays") = PyTrue
    THEN [game EXCEPT !.liveData.plays.allPlays =
                          [i \in 1..Len(@) |-> PlayAfter(@[i])]]
    ELSE game

----------------------------------------------------------------------------
(* The documents the flattener is run on.  A block that is Absent is a key *)
(* the JSON document does not have; a block that is None is a JSON null.   *)

MaxEvents == 2
MaxPlays == 2
MaxCalls == 2

Absent == [absent |-> TRUE]

\* the dict {k: v}, or {} when v is Absent
Opt(k, v) == IF v = Absent THEN EmptyDict ELSE (k :> v)

Teams ==
    [away |-> [abbreviation |-> PyStr("NYY"), id |-> PyInt(1)],
     home |-> [abbreviation |-> PyStr("BOS"), id |-> PyInt(2)]]

OtherTeams ==
    [away |-> [abbreviation |-> PyStr("LAD"), id |-> PyInt(3)],
     home |-> [abbreviation |-> PyStr("SF"), id |-> PyInt(4)]]

Datetime == [officialDate |-> PyStr("2023-07-01")]

Matchup ==
    [batter |-> [id |-> PyInt(123), fullName |-> PyStr("John Doe")],
     pitcher |-> [id |-> PyInt(456), fullName |-> PyStr("Jane Smith")],
     batSide |-> [code |-> PyStr("R")],
     pitchHand |-> [code |-> PyStr("L")]]

PlayResult ==
    [type |-> PyStr("atBat"), event |-> PyStr("Single"),
     eventType |-> PyStr("single"), rbi |-> PyInt(0),
     awayScore |-> PyInt(0), homeScore |-> PyInt(1), isOut |-> PyFalse]

\* details blocks: a ball in play, a called ball, the call-only block of the
\* test fixture, a code without a call entry, an empty code, an action
DetailsInPlay ==
    [call |-> [code |-> PyStr("X"), description |-> PyStr("In play")],
     code |-> PyStr("X"), description |-> PyStr("In play, no out"),
     isInPlay |-> PyTrue, isStrike |-> PyFalse, isBall |-> PyFalse,
     hasReview |-> PyFalse,
     type |-> [code |-> PyStr("FF"), description |-> PyStr("Four-Seam")]]
DetailsBall ==
    [call |-> [code |-> PyStr("B"), description |-> PyStr("Ball")],
     code |-> PyStr("B"), description |-> PyStr("Ball"),
     isInPlay |-> PyFalse, isStrike |-> PyFalse, isBall |-> PyTrue]
DetailsCallOnly ==
    [call |-> [code |-> PyStr("S")], description |-> PyStr("Strike")]
DetailsCodeOnly ==
    [code |-> PyStr("T"), description |-> PyStr("Foul Tip")]
DetailsEmptyCode ==
    [code |-> PyStr(""), description |-> PyStr("Automatic Ball")]
DetailsAction ==
    [description |-> PyStr("Mound Visit"), event |-> PyStr("Game Advisory")]

Count(b, s, o) == [balls |-> PyInt(b), strikes |-> PyInt(s), outs |-> PyInt(o)]

PitchData ==
    [startSpeed |-> PyInt(90), endSpeed |-> PyInt(83),
     strikeZoneTop |-> PyInt(3), strikeZoneBottom |-> PyInt(1),
     coordinates |->
        [x |-> PyInt(0), y |-> PyInt(2), aX |-> PyInt(5), aY |-> PyInt(6),
         aZ |-> PyInt(7), pfxX |-> PyInt(8), pfxZ |-> PyInt(9),
         pX |-> PyInt(10), pZ |-> PyInt(11), vX0 |-> PyInt(12),
         vY0 |-> PyInt(13), vZ0 |-> PyInt(14), x0 |-> PyInt(15),
         y0 |-> PyInt(16), z0 |-> PyInt(17)],
     zone |-> PyInt(5), typeConfidence |-> PyInt(2), plateTime |-> PyInt(0),
     extension |-> PyInt(6),
     breaks |->
        [spinRate |-> PyInt(2500), spinDirection |-> PyInt(180),
         breakVertical |-> PyInt(20), breakVerticalInduced |-> PyInt(15),
         breakHorizontal |-> PyInt(4)]]

HitData ==
    [launchSpeed |-> PyInt(95), launchAngle |-> PyInt(25),
     totalDistance |-> PyInt(350), location |-> PyStr("7"),
     trajectory |-> PyStr("line_drive"), hardness |-> PyStr("medium"),
     coordinates |-> [coordX |-> PyInt(125), coordY |-> PyInt(200)]]

\* an event, before it is given its place in a play
Event(isPitch, details, count, pitchData, hitData) ==
    Opt("isPitch", isPitch) @@ Opt("details", details) @@ Opt("count", count)
        @@ Opt("pitchData", pitchData) @@ Opt("hitData", hitData)

\* a play: its k-th event gets index k - 1 and a playId unique in the
\* document (p is the play's position in allPlays)
Play(p, events, matchup, about, result, gameBlock) ==
    Opt("matchup", matchup) @@ Opt("about", about) @@ Opt("result", result)
        @@ Opt("game", gameBlock)
        @@ [playEvents |->
              [k \in 1..Len(events) |->
                  events[k] @@ [index |-> PyInt(k - 1),
                                playId |-> PyInt(100 * p + k)]]]

Document(gamePk, gameData, all_plays) ==
    Opt("gamePk", gamePk) @@ Opt("gameData", gameData)
        @@ [liveData |-> [plays |-> [allPlays |-> all_plays]]]

Top == [isTopInning |-> PyTrue]
Bottom == [isTopInning |-> PyFalse]
FullGameData == [datetime |-> Datetime, teams |-> Teams]

SeqsUpTo(S, n) == UNION {[1..k -> S] : k \in 0..n}

\* (1) event sequences: every play of up to MaxEvents events drawn from
\*     pitch indicator x details x count
SeqEvents ==
    {Event(ip, d, c, Absent, Absent) :
        ip \in {Absent, PyTrue},
        d \in {Absent, DetailsInPlay},
        c \in {Absent, Count(4, 1, 1), Count(1, 2, 0)}}

SeqDocs ==
    {Document(PyInt(12345), FullGameData,
              <<Play(1, es, Matchup, Top, PlayResult, Absent)>>) :
        es \in SeqsUpTo(SeqEvents, MaxEvents)}

\* (2) one event: every pitch indicator x details block x count
OneEvents ==
    {Event(ip, d, c, Absent, Absent) :
        ip \in {Absent, PyTrue, PyFalse},
        d \in {Absent, DetailsInPlay, DetailsBall, DetailsCallOnly,
               DetailsCodeOnly, DetailsEmptyCode, DetailsAction},
        c \in {Absent, Count(4, 1, 1), Count(1, 2, 0)}}

OneEventDocs ==
    {Document(PyInt(12345), FullGameData,
              <<Play(1, <<e>>, Matchup, Bottom, PlayResult, Absent)>>) :
        e \in OneEvents}

\* (3) several plays, each of at most one event
ShortPlayEvents ==
    {<<>>,
     <<Event(PyTrue, DetailsBall, Count(1, 0, 0), Absent, Absent)>>,
     <<Event(PyFalse, Absent, Count(4, 0, 2), Absent, Absent)>>,
     <<Event(PyFalse, DetailsAction, Count(0, 0, 1), Absent, Absent)>>}

PlaysDocs ==
    {Document(PyInt(12345), FullGameData,
              [p \in 1..Len(ps) |->
                  Play(p, ps[p], Matchup, IF p % 2 = 1 THEN Top ELSE Bottom,
                       PlayResult, Absent)]) :
        ps \in SeqsUpTo(ShortPlayEvents, MaxPlays)}

\* (4) absent optional blocks: one two-play document with every subset of
\*     its optional blocks left out; a block named in nulls is a JSON null
OptionalBlocks ==
    {"matchup", "about", "result", "details", "type", "count", "pitchData",
     "hitData", "coordinates", "breaks", "teams"}

NullableBlocks ==
    {"matchup", "about", "result", "details", "count", "pitchData",
     "hitData", "gameData", "plays"}

Strip(d, keys) == [k \in DOMAIN d \ keys |-> d[k]]

Block(absent, nulls, name, v) ==
    IF name \in nulls THEN None
    ELSE IF name \in absent THEN Absent
    ELSE v

BlocksDocument(absent, nulls) ==
    LET B(name, v) == Block(absent, nulls, name, v)
        pitch ==
            Event(PyTrue,
                  B("details", Strip(DetailsInPlay, absent \cap {"type"})),
                  B("count", Count(1, 0, 1)),
                  B("pitchData",
                    Strip(PitchData, absent \cap {"coordinates", "breaks"})),
                  B("hitData", Strip(HitData, absent \cap {"coordinates"})))
            @@ [startTime |-> PyStr("18:05:01Z"),
                endTime |-> PyStr("18:05:09Z"), type |-> PyStr("pitch")]
        action ==
            Event(PyFalse, B("details", DetailsAction),
                  B("count", Count(3, 0, 1)), Absent, Absent)
        walk ==
            Event(Absent, Absent, B("count", Count(4, 0, 1)), Absent, Absent)
        called ==
            Event(Absent, B("details", DetailsCallOnly),
                  B("count", Count(0, 1, 2)), Absent, Absent)
        play(p, events, about) ==
            Play(p, events, B("matchup", Matchup), B("about", about),
                 B("result", PlayResult), Absent)
        plays ==
            B("plays",
              [allPlays |-> <<play(1, <<pitch, action, walk>>, Top),
                              play(2, <<called, pitch>>, Bottom)>>])
    IN  [gamePk |-> PyInt(12345),
         gameData |-> B("gameData", Strip(FullGameData, absent \cap {"teams"})),
         liveData |-> Opt("plays", plays)]

AbsenceDocs == {BlocksDocument(absent, {}) : absent \in SUBSET OptionalBlocks}

\* (5) a JSON null where a block is expected
NullDocs == {BlocksDocument({}, {name}) : name \in NullableBlocks}

\* (6) the roster of the document, the half-inning flag, and a play that
\*     carries a "game" block of its own
TeamDocs ==
    {Document(PyInt(12345), Opt("datetime", Datetime) @@ Opt("teams", t),
              <<Play(1,
                     <<Event(PyTrue, DetailsBall, Count(3, 0, 0), Absent, Absent),
                       Event(PyFalse, Absent, Count(4, 0, 0), Absent, Absent)>>,
                     Matchup, about, PlayResult, g)>>) :
        t \in {Absent, Teams},
        about \in {Absent, Top, Bottom},
        g \in {Absent, [gameData |-> [teams |-> OtherTeams]]}}

\* (7) documents without plays
EmptyDocs ==
    {EmptyDict,
     [gamePk |-> PyInt(12345)],
     [gamePk |-> PyInt(12345), gameData |-> FullGameData],
     [gamePk |-> PyInt(12345), liveData |-> EmptyDict],
     [gamePk |-> PyInt(12345), liveData |-> [plays |-> EmptyDict]],
     Document(PyInt(12345), FullGameData, <<>>)}

Docs ==
    SeqDocs \cup OneEventDocs \cup PlaysDocs \cup AbsenceDocs \cup NullDocs
        \cup TeamDocs \cup EmptyDocs

----------------------------------------------------------------------------
(* The flattener as a state machine: one document, flattened again and     *)
(* again by _game_to_df.                                                   *)

GamesIdle ==
    /\ game_ids = <<>>
    /\ responses = <<>>
    /\ futures = <<>>
    /\ outcome = <<>>
    /\ yielded = {}
    /\ game_data = EmptyDict
    /\ printed = <<>>
    /\ pc = "idle"

Init ==
    /\ doc \in Docs
    /\ results = <<>>
    /\ GamesIdle

\* df = _game_to_df(doc)
Flatten ==
    /\ Len(results) < MaxCalls
    /\ results' = Append(results, GameToDf(doc))
    /\ doc' = DocAfter(doc)
    /\ UNCHANGED gamesVars

Next == Flatten

Spec == Init /\ [][Next]_vars

----------------------------------------------------------------------------
(* games(game_ids): one _game task per identifier on a ThreadPoolExecutor, *)
(* collected by the calling thread with as_completed.                      *)

MaxGames == 2
MaxWorkers == 2
GameIds == {11, 12, 13}

\* what requests.get may answer: a status code and, for 200, the JSON body
FetchDocs ==
    {EmptyDict,
     [gamePk |-> PyInt(12345)],
     [gamePk |-> PyInt(12345), gameData |-> FullGameData],
     Document(PyInt(12345), FullGameData,
              <<Play(1,
                     <<Event(PyTrue, DetailsBall, Count(1, 0, 0), Absent, Absent)>>,
                     Matchup, Top, PlayResult, Absent)>>),
     BlocksDocument({}, {"details"}),
     [gamePk |-> PyInt(12345), liveData |-> EmptyDict],
     BlocksDocument({}, {"plays"})}

Responses ==
    {[status_code |-> 200, json |-> d] : d \in FetchDocs}
        \cup {[status_code |-> 404, json |-> EmptyDict]}

InitGames ==
    /\ doc = EmptyDict
    /\ results = <<>>
    /\ game_ids \in SeqsUpTo(GameIds, MaxGames)
    /\ responses = <<>>
    /\ futures = <<>>
    /\ outcome = <<>>
    /\ yielded = {}
    /\ game_data = EmptyDict
    /\ printed = <<>>
    /\ pc = "submit"

Tasks == 1..Len(futures)
Running == {i \in Tasks : futures[i] = "running"}
Pending == {i \in Tasks : futures[i] = "pending"}
Finished == {i \in Tasks : futures[i] = "finished"}

\* futures = [executor.submit(_game, game_id) for game_id in game_ids],
\* one submit at a time; workers may start on the tasks already submitted
Submit ==
    /\ pc = "submit"
    /\ Len(futures) < Len(game_ids)
    /\ futures' = Append(futures, "pending")
    /\ UNCHANGED <<game_ids, responses, outcome, yielded, game_data, printed,
                   pc>>
    /\ UNCHANGED flatVars

\* the comprehension is over: the calling thread enters the as_completed loop
Submitted ==
    /\ pc = "submit"
    /\ Len(futures) = Len(game_ids)
    /\ pc' = "collect"
    /\ UNCHANGED <<game_ids, responses, futures, outcome, yielded, game_data,
                   printed>>
    /\ UNCHANGED flatVars

\* a free worker of the pool takes the oldest task of the work queue
TaskStart ==
    /\ Pending # {}
    /\ Cardinality(Running) < MaxWorkers
    /\ LET i == CHOOSE j \in Pending : \A k \in Pending : j <= k
       IN  futures' = [futures EXCEPT ![i] = "running"]
    /\ UNCHANGED <<game_ids, responses, outcome, yielded, game_data, printed,
                   pc>>
    /\ UNCHANGED flatVars

\* GameResult with a fault seeded: a bad status code is not checked
GameResultUnchecked(game_id, response) ==
    IF IsRaise(GameToDf(response.json))
    THEN [exception |-> GameToDf(response.json).raise]
    ELSE [value |-> <<game_id, GameToDf(response.json)>>]

\* _game(game_id), given the response of requests.get: what the future holds
GameResult(game_id, response) ==
    IF response.status_code # 200
    THEN [exception |-> "BadResponseCode"]
    ELSE IF IsRaise(GameToDf(response.json))
    THEN [exception |-> GameToDf(response.json).raise]
    ELSE [value |-> <<game_id, GameToDf(response.json)>>]

\* a running task gets its response and ends; its future is set
TaskFinish(i, response) ==
    /\ i \in Running
    /\ responses' = (i :> response) @@ responses
    /\ outcome' = (i :> GameResult(game_ids[i], response)) @@ outcome
    /\ futures' = [futures EXCEPT ![i] = "finished"]
    /\ UNCHANGED <<game_ids, yielded, game_data, printed, pc>>
    /\ UNCHANGED flatVars

\* one pass of `for future in as_completed(futures)`: a finished future not
\* yet yielded; its result is stored under its game_id, its exception printed
Collect(i) ==
    /\ pc = "collect"
    /\ i \in Finished \ yielded
    /\ yielded' = yielded \cup {i}
    /\ IF "value" \in DOMAIN outcome[i]
       THEN /\ game_data' =
                  (outcome[i].value[1] :> outcome[i].value[2]) @@ game_data
            /\ UNCHANGED printed
       ELSE /\ printed' = Append(printed, <<i, outcome[i].exception>>)
            /\ UNCHANGED game_data
    /\ UNCHANGED <<game_ids, responses, futures, outcome, pc>>
    /\ UNCHANGED flatVars

\* Return with a fault seeded: the loop is left and the pool shut down without
\* waiting (shutdown(wait=False)) once every task was submitted
ReturnEarly ==
    /\ pc = "collect"
    /\ pc' = "returned"
    /\ UNCHANGED <<game_ids, responses, futures, outcome, yielded, game_data,
                   printed>>
    /\ UNCHANGED flatVars

\* every future was yielded: the with block shuts the pool down, games returns
Return ==
    /\ pc = "collect"
    /\ yielded = Tasks
    /\ pc' = "returned"
    /\ UNCHANGED <<game_ids, responses, futures, outcome, yielded, game_data,
                   printed>>
    /\ UNCHANGED flatVars

NextGames ==
    \/ Submit
    \/ Submitted
    \/ TaskStart
    \/ \E i \in Tasks, response \in Responses : TaskFinish(i, response)
    \/ \E i \in Tasks : Collect(i)
    \/ Return

SpecGames == InitGames /\ [][NextGames]_vars

----------------------------------------------------------------------------
(* The vocabulary of the properties: what a document holds at a path, the  *)
(* events of its plays, and the classification of an event as the          *)
(* specification words it.                                                 *)

RECURSIVE HasPath(_, _)
HasPath(d, path) ==
    \/ path = <<>>
    \/ /\ Head(path) \in DOMAIN d
       /\ HasPath(d[Head(path)], Tail(path))

RECURSIVE AtPath(_, _)
AtPath(d, path) ==
    IF path = <<>> THEN d ELSE AtPath(d[Head(path)], Tail(path))

\* the value a document holds at a path; None when it holds none
Lookup(d, path) == IF HasPath(d, path) THEN AtPath(d, path) ELSE None

IsMissing(v) == v \in {None, NaN}

PlaysOf(d) ==
    IF HasPath(d, <<"liveData", "plays", "allPlays">>)
    THEN d.liveData.plays.allPlays
    ELSE <<>>

EventsOf(play) ==
    IF "playEvents" \in DOMAIN play THEN play.playEvents ELSE <<>>

\* <<p, k>>: the k-th event of the p-th play
Positions(d) ==
    UNION {{<<p, k>> : k \in 1..Len(EventsOf(PlaysOf(d)[p]))} :
              p \in 1..Len(PlaysOf(d))}

PlayAt(d, pos) == PlaysOf(d)[pos[1]]
EventAt(d, pos) == EventsOf(PlayAt(d, pos))[pos[2]]
IsLast(d, pos) == pos[2] = Len(EventsOf(PlayAt(d, pos)))

RowsOf(res) == IF "rows" \in DOMAIN res THEN res.rows ELSE <<>>

\* the records a result holds for the event at pos
RowsFor(res, d, pos) ==
    {j \in 1..Len(RowsOf(res)) :
        RowsOf(res)[j].play_id = EventAt(d, pos).playId}

PitchIndicator(e) == Lookup(e, <<"isPitch">>) = PyTrue
HasCall(e) == HasPath(e, <<"details", "call">>)
IsPitchCallEvent(e) == PitchIndicator(e) \/ HasCall(e)
IsWalkEvent(e) ==
    /\ ~IsPitchCallEvent(e)
    /\ Lookup(e, <<"count", "balls">>) = PyInt(4)

CountOf(e) ==
    <<Lookup(e, <<"count", "strikes">>), Lookup(e, <<"count", "balls">>),
      Lookup(e, <<"count", "outs">>)>>
CountBefore(r) == <<r.strikes, r.balls, r.outs>>
CountAfter(r) == <<r.strikes_after, r.balls_after, r.outs_after>>

\* the result block of a play, field by field of the record
ResultKey ==
    [type_ab |-> "type", event |-> "event", event_type |-> "eventType",
     rbi |-> "rbi", away_score |-> "awayScore", home_score |-> "homeScore",
     is_out |-> "isOut"]
ResultValue(play, f) == Lookup(play, <<"result", ResultKey[f]>>)

\* every result of flattening doc, every event of doc, every record of it
ForEachRecord(P(_, _, _)) ==
    \A i \in 1..Len(results) :
        \A pos \in Positions(doc) :
            \A j \in RowsFor(results[i], doc, pos) :
                P(RowsOf(results[i])[j], pos, results[i])

SomeRecord(P(_, _, _)) ==
    \E i \in 1..Len(results) :
        \E pos \in Positions(doc) :
            \E j \in RowsFor(results[i], doc, pos) :
                P(RowsOf(results[i])[j], pos, results[i])

----------------------------------------------------------------------------
(* C1 *)

\* C1: for every play and every event at index n > 0 that produces a record
\* (pitch/call or walk-by-count), the record's count before (strikes, balls,
\* outs) is the count of the event at index n - 1 of the same play, also
\* when that event was skipped.
C1_CountBeforeIsPreviousCount ==
    LET P(r, pos, res) ==
            pos[2] > 1 =>
                CountBefore(r) = CountOf(EventAt(doc, <<pos[1], pos[2] - 1>>))
    IN  ForEachRecord(P)

----------------------------------------------------------------------------
(* C2 *)

\* C2: a pitch/call record carries the play's at-bat result values in its
\* seven result fields if and only if its event is the last of the play;
\* every pitch/call record of an earlier event has NaN in all seven.
C2_ResultOnLastPitchRecordOnly ==
    LET P(r, pos, res) ==
            IsPitchCallEvent(EventAt(doc, pos)) =>
                IF IsLast(doc, pos)
                THEN \A f \in AbResultFields :
                        r[f] = ResultValue(PlayAt(doc, pos), f)
                ELSE \A f \in AbResultFields : r[f] = NaN
    IN  ForEachRecord(P)

\* two pitch/call records of one play that has a result: the first blank,
\* the last carrying the result
C2_Witness ==
    LET P(r, pos, res) ==
            /\ pos[2] = 2
            /\ IsLast(doc, pos)
            /\ IsPitchCallEvent(EventAt(doc, pos))
            /\ IsPitchCallEvent(EventAt(doc, <<pos[1], 1>>))
            /\ r.event = PyStr("Single")
            /\ r.is_out = PyFalse
            /\ \E j \in RowsFor(res, doc, <<pos[1], 1>>) :
                  RowsOf(res)[j].event = NaN
    IN  SomeRecord(P)

----------------------------------------------------------------------------
(* C3 *)

----------------------------------------------------------------------------
(* C4 *)

\* C4: a play whose single event has a ball count of 4, no pitch indicator
\* and no call in its details produces exactly one record, whose count
\* before is (0 strikes, 0 balls, the event's outs) and whose count after is
\* the event's own count.
C4_SingleWalkCountFromZero ==
    \A i \in 1..Len(results) :
        \A pos \in Positions(doc) :
            (/\ "rows" \in DOMAIN results[i]
             /\ pos[2] = 1
             /\ IsLast(doc, pos)
             /\ IsWalkEvent(EventAt(doc, pos)))
            => /\ Cardinality(RowsFor(results[i], doc, pos)) = 1
               /\ \A j \in RowsFor(results[i], doc, pos) :
                     LET r == RowsOf(results[i])[j]
                     IN  /\ CountBefore(r) =
                                <<PyInt(0), PyInt(0),
                                  Lookup(EventAt(doc, pos), <<"count", "outs">>)>>
                         /\ CountAfter(r) = CountOf(EventAt(doc, pos))

----------------------------------------------------------------------------
(* C5 *)

SwingCodes == {PyStr(c) : c \in {"X", "F", "S", "D", "E", "T", "W"}}
WhiffCodes == {PyStr(c) : c \in {"S", "T", "W"}}

\* the flags of a record r against the code c: true iff c is a swing (whiff)
\* code, NaN exactly when there is no code
FlagsFollow(r, c, none) ==
    /\ r.is_swing = PyTrue <=> c \in SwingCodes
    /\ r.is_whiff = PyTrue <=> c \in WhiffCodes
    /\ r.is_swing = NaN <=> none
    /\ r.is_whiff = NaN <=> none
    /\ r.is_swing \in {PyTrue, PyFalse, NaN}
    /\ r.is_whiff \in {PyTrue, PyFalse, NaN}

----------------------------------------------------------------------------
(* C6 *)

\* the datum of the document's roster a team field is to hold
RosterValue(d, play, forBatter, leaf) ==
    LET top == Lookup(play, <<"about", "isTopInning">>) = PyTrue
        side == IF top = forBatter THEN "away" ELSE "home"
    IN  Lookup(d, <<"gameData", "teams", side, leaf>>)

\* C6: for every record, batter_team / batter_team_id are the abbreviation
\* and id of the document's away team when the play is in the top of the
\* inning and of its home team otherwise, pitcher_team / pitcher_team_id
\* those of the opposite side; a team field is missing only when the
\* document's roster lacks the datum.
C6_TeamsFromDocumentRoster ==
    LET P(r, pos, res) ==
            /\ r.batter_team = RosterValue(doc, PlayAt(doc, pos), TRUE, "abbreviation")
            /\ r.batter_team_id = RosterValue(doc, PlayAt(doc, pos), TRUE, "id")
            /\ r.pitcher_team = RosterValue(doc, PlayAt(doc, pos), FALSE, "abbreviation")
            /\ r.pitcher_team_id = RosterValue(doc, PlayAt(doc, pos), FALSE, "id")
    IN  ForEachRecord(P)

----------------------------------------------------------------------------
(* C7 *)

Qualifies(e) == IsPitchCallEvent(e) \/ IsWalkEvent(e)

\* a record made from the event's details, and one with them blanked
PitchShaped(r, e) ==
    /\ r.play_description = Lookup(e, <<"details", "description">>)
    /\ r.play_code = Lookup(e, <<"details", "code">>)
    /\ r.is_ball = Lookup(e, <<"details", "isBall">>)
WalkShaped(r) ==
    /\ r.play_description = NaN
    /\ r.play_code = NaN
    /\ r.is_ball = NaN

Before(pos1, pos2) ==
    \/ pos1[1] < pos2[1]
    \/ pos1[1] = pos2[1] /\ pos1[2] < pos2[2]

\* C7: each event is classified by first match (pitch indicator or call =>
\* pitch/call record; else 4 balls => walk-by-count record; else skipped),
\* one record per qualifying event and none per skipped one (an event that
\* is a pitch and shows 4 balls yields one pitch-shaped record), and the
\* records keep play order and, within a play, event order.
C7_OneRecordPerQualifyingEventInOrder ==
    \A i \in 1..Len(results) :
        LET res == results[i]
            rows == RowsOf(res)
        IN  "rows" \in DOMAIN res =>
            /\ \A pos \in Positions(doc) :
                  LET e == EventAt(doc, pos)
                      mine == RowsFor(res, doc, pos)
                  IN  /\ Cardinality(mine) = IF Qualifies(e) THEN 1 ELSE 0
                      /\ \A j \in mine :
                            IF IsPitchCallEvent(e)
                            THEN PitchShaped(rows[j], e)
                            ELSE WalkShaped(rows[j])
            /\ \A j \in 1..Len(rows) :
                  \E pos \in Positions(doc) : j \in RowsFor(res, doc, pos)
            /\ \A pos1, pos2 \in Positions(doc) :
                  \A j1 \in RowsFor(res, doc, pos1), j2 \in RowsFor(res, doc, pos2) :
                      j1 < j2 => Before(pos1, pos2)

\* a play of a pitch that shows 4 balls followed by a skipped event: its one
\* record is pitch-shaped
C7_Witness ==
    /\ Len(results) > 0
    /\ Len(RowsOf(results[1])) = 1
    /\ \E pos \in Positions(doc) :
          /\ PitchIndicator(EventAt(doc, pos))
          /\ Lookup(EventAt(doc, pos), <<"count", "balls">>) = PyInt(4)
          /\ \E j \in RowsFor(results[1], doc, pos) :
                /\ PitchShaped(RowsOf(results[1])[j], EventAt(doc, pos))
                /\ ~WalkShaped(RowsOf(results[1])[j])
          /\ ~IsLast(doc, pos)
          /\ ~Qualifies(EventAt(doc, <<pos[1], pos[2] + 1>>))

----------------------------------------------------------------------------
(* C9 *)

\* where each field of a record comes from: a path in the play, in the
\* event, or in the document
PlaySource ==
    [batter_id |-> <<"matchup", "batter", "id">>,
     batter_name |-> <<"matchup", "batter", "fullName">>,
     batter_hand |-> <<"matchup", "batSide", "code">>,
     pitcher_id |-> <<"matchup", "pitcher", "id">>,
     pitcher_name |-> <<"matchup", "pitcher", "fullName">>,
     pitcher_hand |-> <<"matchup", "pitchHand", "code">>,
     type_ab |-> <<"result", "type">>,
     event |-> <<"result", "event">>,
     event_type |-> <<"result", "eventType">>,
     rbi |-> <<"result", "rbi">>,
     away_score |-> <<"result", "awayScore">>,
     home_score |-> <<"result", "homeScore">>,
     is_out |-> <<"result", "isOut">>]

EventSource ==
    [strikes_after |-> <<"count", "strikes">>,
     balls_after |-> <<"count", "balls">>,
     outs_after |-> <<"count", "outs">>,
     play_description |-> <<"details", "description">>,
     play_code |-> <<"details", "code">>,
     in_play |-> <<"details", "isInPlay">>,
     is_strike |-> <<"details", "isStrike">>,
     is_swing |-> <<"details", "code">>,
     is_whiff |-> <<"details", "code">>,
     is_ball |-> <<"details", "isBall">>,
     is_review |-> <<"details", "hasReview">>,
     pitch_type |-> <<"details", "type", "code">>,
     pitch_description |-> <<"details", "type", "description">>,
     start_speed |-> <<"pitchData", "startSpeed">>,
     end_speed |-> <<"pitchData", "endSpeed">>,
     sz_top |-> <<"pitchData", "strikeZoneTop">>,
     sz_bot |-> <<"pitchData", "strikeZoneBottom">>,
     x |-> <<"pitchData", "coordinates", "x">>,
     y |-> <<"pitchData", "coordinates", "y">>,
     ax |-> <<"pitchData", "coordinates", "aX">>,
     ay |-> <<"pitchData", "coordinates", "aY">>,
     az |-> <<"pitchData", "coordinates", "aZ">>,
     pfxx |-> <<"pitchData", "coordinates", "pfxX">>,
     pfxz |-> <<"pitchData", "coordinates", "pfxZ">>,
     px |-> <<"pitchData", "coordinates", "pX">>,
     pz |-> <<"pitchData", "coordinates", "pZ">>,
     vx0 |-> <<"pitchData", "coordinates", "vX0">>,
     vy0 |-> <<"pitchData", "coordinates", "vY0">>,
     vz0 |-> <<"pitchData", "coordinates", "vZ0">>,
     x0 |-> <<"pitchData", "coordinates", "x0">>,
     y0 |-> <<"pitchData", "coordinates", "y0">>,
     z0 |-> <<"pitchData", "coordinates", "z0">>,
     zone |-> <<"pitchData", "zone">>,
     type_confidence |-> <<"pitchData", "typeConfidence">>,
     plate_time |-> <<"pitchData", "plateTime">>,
     extension |-> <<"pitchData", "extension">>,
     spin_rate |-> <<"pitchData", "breaks", "spinRate">>,
     spin_direction |-> <<"pitchData", "breaks", "spinDirection">>,
     vb |-> <<"pitchData", "breaks", "breakVertical">>,
     ivb |-> <<"pitchData", "breaks", "breakVerticalInduced">>,
     hb |-> <<"pitchData", "breaks", "breakHorizontal">>,
     launch_speed |-> <<"hitData", "launchSpeed">>,
     launch_angle |-> <<"hitData", "launchAngle">>,
     launch_distance |-> <<"hitData", "totalDistance">>,
     launch_location |-> <<"hitData", "location">>,
     trajectory |-> <<"hitData", "trajectory">>,
     hardness |-> <<"hitData", "hardness">>,
     hit_x |-> <<"hitData", "coordinates", "coordX">>,
     hit_y |-> <<"hitData", "coordinates", "coordY">>,
     index_play |-> <<"index">>,
     play_id |-> <<"playId">>,
     start_time |-> <<"startTime">>,
     end_time |-> <<"endTime">>,
     is_pitch |-> <<"isPitch">>,
     type_type |-> <<"type">>]

DocSource ==
    [game_id |-> <<"gamePk">>,
     game_date |-> <<"gameData", "datetime", "officialDate">>]

CountKey == [strikes |-> "strikes", balls |-> "balls", outs |-> "outs"]
TeamLeaf ==
    [batter_team |-> "abbreviation", batter_team_id |-> "id",
     pitcher_team |-> "abbreviation", pitcher_team_id |-> "id"]

\* no roster, of the document or carried by the play, has the datum of
\* either side
NoRosterDatum(d, play, leaf) ==
    \A side \in {"away", "home"} :
        /\ ~HasPath(d, <<"gameData", "teams", side, leaf>>)
        /\ ~HasPath(play, <<"game", "gameData", "teams", side, leaf>>)

\* the count a record's count before is taken from is absent: for a
\* pitch/call record the count of the event before it (at index 0 only the
\* outs have a source, the event's own count); a walk-by-count record has
\* the event's own count as its only count source
NoCountBefore(d, pos, f) ==
    LET e == EventAt(d, pos)
    IN  IF IsPitchCallEvent(e)
        THEN IF pos[2] = 1
             THEN f = "outs" /\ ~HasPath(e, <<"count", "outs">>)
             ELSE ~HasPath(EventAt(d, <<pos[1], pos[2] - 1>>),
                           <<"count", CountKey[f]>>)
        ELSE ~HasPath(e, <<"count", CountKey[f]>>)

\* C9: for every document that is a mapping with a plays container, and
\* every subset of its optional blocks absent (matchup, about, result,
\* details, details type, count, pitch data, hit data, coordinates, breaks,
\* team roster), flattening does not raise and every field of every record
\* whose source is absent holds the missing-value marker (None or NaN).
C9_AbsentBlocksDegradeToMissing ==
    (HasPath(doc, <<"liveData", "plays">>) /\ doc \notin NullDocs) =>
        /\ \A i \in 1..Len(results) : "rows" \in DOMAIN results[i]
        /\ LET P(r, pos, res) ==
                   /\ \A f \in DOMAIN PlaySource :
                         ~HasPath(PlayAt(doc, pos), PlaySource[f])
                             => IsMissing(r[f])
                   /\ \A f \in DOMAIN EventSource :
                         ~HasPath(EventAt(doc, pos), EventSource[f])
                             => IsMissing(r[f])
                   /\ \A f \in DOMAIN DocSource :
                         ~HasPath(doc, DocSource[f]) => IsMissing(r[f])
                   /\ \A f \in DOMAIN TeamLeaf :
                         NoRosterDatum(doc, PlayAt(doc, pos), TeamLeaf[f])
                             => IsMissing(r[f])
                   /\ \A f \in DOMAIN CountKey :
                         NoCountBefore(doc, pos, f) => IsMissing(r[f])
           IN  ForEachRecord(P)

\* the document with every optional block absent, flattened to records
\* whose fields are missing
C9_Witness ==
    /\ doc = BlocksDocument(OptionalBlocks, {})
    /\ Len(results) > 0
    /\ Len(RowsOf(results[1])) = 2
    /\ RowsOf(results[1])[1].start_speed = None
    /\ RowsOf(results[1])[1].batter_id = None
    /\ RowsOf(results[1])[1].is_swing = NaN
    /\ RowsOf(results[1])[2].strikes = None

----------------------------------------------------------------------------
(* C8 *)

DistinctIds == \A i, j \in 1..Len(game_ids) : game_ids[i] = game_ids[j] => i = j

\* the fetch of task k alone failed: a status code other than 200 for k,
\* and 200 with a document free of JSON nulls for every other task
OnlyFetchFailed(k) ==
    /\ responses[k].status_code # 200
    /\ \A j \in Tasks \ {k} :
          /\ responses[j].status_code = 200
          /\ responses[j].json \notin NullDocs

\* C8: given N identifiers where the fetch of identifier k fails with a
\* status code other than 200 and every other fetch succeeds, games()
\* returns, the failure of k is reported, and the returned mapping has
\* exactly N - 1 entries: one for each other identifier, holding the frame of
\* that identifier's own document, and none for k.
C8_OneFailedFetchIsIsolated ==
    \A k \in Tasks :
        (pc = "returned" /\ DistinctIds /\ OnlyFetchFailed(k)) =>
            /\ DOMAIN game_data = {game_ids[j] : j \in Tasks \ {k}}
            /\ Cardinality(DOMAIN game_data) = Len(game_ids) - 1
            /\ game_ids[k] \notin DOMAIN game_data
            /\ printed = <<(<<k, "BadResponseCode">>)>>
            /\ \A j \in Tasks \ {k} :
                  game_data[game_ids[j]] = GameToDf(responses[j].json)

\* games() returned for two identifiers, the fetch of one answered 404 and
\* the other a document with a play: one entry, one report
C8_Witness ==
    /\ pc = "returned"
    /\ Len(game_ids) = 2
    /\ DistinctIds
    /\ \E k \in Tasks :
          /\ OnlyFetchFailed(k)
          /\ \E j \in Tasks \ {k} :
                /\ game_ids[j] \in DOMAIN game_data
                /\ Len(RowsOf(game_data[game_ids[j]])) = 1
    /\ Len(printed) = 1

----------------------------------------------------------------------------
(* C10 *)

\* C10: flattening a document that has no plays (an empty document, or one
\* holding only its game identifier) returns an empty record sequence and
\* raises nothing; through games(), such a document with a successful fetch
\* yields an entry for its identifier in the returned mapping.
C10_NoPlaysGivesEmptyFrameAndEntry ==
    \A i \in DOMAIN responses :
        (responses[i].status_code = 200
            /\ responses[i].json \notin NullDocs
            /\ Len(PlaysOf(responses[i].json)) = 0)
        => /\ outcome[i] = [value |-> <<game_ids[i], [rows |-> <<>>]>>]
           /\ pc = "returned" =>
                 /\ game_ids[i] \in DOMAIN game_data
                 /\ DistinctIds => game_data[game_ids[i]] = [rows |-> <<>>]

\* games() returned a mapping with the empty frame of the empty document and
\* that of a document holding only its game identifier
C10_Witness ==
    /\ pc = "returned"
    /\ DistinctIds
    /\ \E i, j \in DOMAIN responses :
          /\ responses[i] = [status_code |-> 200, json |-> EmptyDict]
          /\ responses[j] =
                [status_code |-> 200, json |-> [gamePk |-> PyInt(12345)]]
          /\ game_data[game_ids[i]] = [rows |-> <<>>]
          /\ game_data[game_ids[j]] = [rows |-> <<>>]

----------------------------------------------------------------------------
(* C11 *)

\* the document of a fetched response has no list of plays because a key on
\* the way to it is not there (no liveData, no plays, or no allPlays)
LacksPlaysContainer(d) ==
    \/ ~HasPath(d, <<"liveData">>)
    \/ /\ HasPath(d, <<"liveData">>) /\ d.liveData # None
       /\ ~HasPath(d, <<"liveData", "plays">>)
    \/ /\ HasPath(d, <<"liveData", "plays">>) /\ d.liveData.plays # None
       /\ ~HasPath(d, <<"liveData", "plays", "allPlays">>)

\* the document holds a JSON null where the plays container is expected
NullPlaysContainer(d) ==
    /\ HasPath(d, <<"liveData", "plays">>)
    /\ d.liveData.plays = None

\* C11 as the specification words it: flattening a document that lacks the
\* top-level plays container fails with a structural error propagated to
\* the caller of flatten; inside games() the failure is caught per task and
\* the identifier is omitted from the returned mapping.
C11_MissingContainerRaises ==
    \A i \in DOMAIN responses :
        (responses[i].status_code = 200
            /\ LacksPlaysContainer(responses[i].json))
        => /\ "exception" \in DOMAIN outcome[i]
           /\ (pc = "returned" /\ DistinctIds)
                 => game_ids[i] \notin DOMAIN game_data

\* C11, amended: flattening a document that lacks the top-level plays
\* container (no liveData, no plays or no allPlays key) raises nothing and
\* returns an empty record sequence, and games() returns an entry with that
\* empty table for its identifier; flattening fails, with an AttributeError
\* propagated to the caller, when the document holds a null in the place of
\* the plays container, and inside games() that failure is caught per task,
\* reported, and the identifier omitted from the returned mapping.
C11_MissingContainerIsEmptyNullRaises ==
    \A i \in DOMAIN responses :
        responses[i].status_code = 200 =>
            /\ LacksPlaysContainer(responses[i].json) =>
                  /\ outcome[i] = [value |-> <<game_ids[i], [rows |-> <<>>]>>]
                  /\ (pc = "returned" /\ DistinctIds)
                        => /\ game_ids[i] \in DOMAIN game_data
                           /\ game_data[game_ids[i]] = [rows |-> <<>>]
            /\ NullPlaysContainer(responses[i].json) =>
                  /\ outcome[i] = [exception |-> "AttributeError"]
                  /\ (pc = "returned" /\ DistinctIds)
                        => /\ game_ids[i] \notin DOMAIN game_data
                           /\ \E n \in 1..Len(printed) :
                                 printed[n] = <<i, "AttributeError">>

\* games() returned for two identifiers: the document of one has a liveData
\* block without plays and gave an empty table, the other holds a null
\* plays container and was reported and left out
C11_Witness ==
    /\ pc = "returned"
    /\ DistinctIds
    /\ \E i, j \in DOMAIN responses :
          /\ responses[i] =
                [status_code |-> 200,
                 json |-> [gamePk |-> PyInt(12345), liveData |-> EmptyDict]]
          /\ responses[j] =
                [status_code |-> 200, json |-> BlocksDocument({}, {"plays"})]
          /\ game_data = (game_ids[i] :> [rows |-> <<>>])
          /\ printed = <<(<<j, "AttributeError">>)>>

----------------------------------------------------------------------------
(* C12 *)

----------------------------------------------------------------------------
(* C13 *)

\* the tasks whose future holds a value
Succeeded == {i \in DOMAIN outcome : "value" \in DOMAIN outcome[i]}

\* every identifier has one document of its own: the tasks of one
\* identifier that succeeded were answered with the same document
OneDocumentPerId ==
    \A i, j \in Succeeded :
        game_ids[i] = game_ids[j] => responses[i].json = responses[j].json

\* the mapping the responses determine, whatever the order of completion
MappingOfResponses ==
    [id \in {game_ids[i] : i \in Succeeded} |->
        GameToDf(responses[CHOOSE i \in Succeeded : game_ids[i] = id].json)]

\* a step that writes the result mapping is a step of the collecting loop on
\* a finished future, and no worker moves in it
WrittenByCollector ==
    game_data' # game_data =>
        /\ pc = "collect"
        /\ \E i \in Finished \ yielded :
              /\ yielded' = yielded \cup {i}
              /\ game_data' =
                    (outcome[i].value[1] :> outcome[i].value[2]) @@ game_data
        /\ UNCHANGED <<futures, outcome, responses>>

ReturnedAfterAllFinished ==
    pc = "returned" =>
        /\ Len(futures) = Len(game_ids)
        /\ Finished = 1..Len(game_ids)
        /\ yielded = Finished

ReturnedMappingIsDetermined ==
    pc = "returned" =>
        /\ DOMAIN game_data = {game_ids[i] : i \in Succeeded}
        /\ \A id \in DOMAIN game_data :
              \E i \in Succeeded :
                  /\ game_ids[i] = id
                  /\ game_data[id] = GameToDf(responses[i].json)
        /\ OneDocumentPerId => game_data = MappingOfResponses

\* C13: for every interleaving and completion order of the worker tasks of
\* one games() call, the result mapping is written only by the collecting
\* thread (never by a worker), games() returns only after every submitted
\* task has finished, and the returned mapping is the same, the one the
\* responses determine: exactly one entry per identifier whose task
\* succeeded, holding the table flattened from that identifier's own
\* document.
C13_CollectedMappingIsOrderIndependent ==
    /\ [](ReturnedAfterAllFinished /\ ReturnedMappingIsDetermined)
    /\ [][WrittenByCollector]_vars

\* games() returned for two identifiers, one answered with a document of one
\* play and the other with an empty document: two entries, each its own
C13_Witness ==
    /\ pc = "returned"
    /\ Len(game_ids) = 2
    /\ DistinctIds
    /\ Succeeded = {1, 2}
    /\ Len(RowsOf(game_data[game_ids[1]])) = 0
    /\ Len(RowsOf(game_data[game_ids[2]])) = 1

----------------------------------------------------------------------------
(* C14 *)

\* the field names of the records of another game: the one pitch record of
\* a document with one play of one pitch
FieldNamesOfOtherGame ==
    DOMAIN GameToDf(
               Document(PyInt(12345), FullGameData,
                        <<Play(1,
                               <<Event(PyTrue, DetailsBall, Count(1, 0, 0),
                                       Absent, Absent)>>,
                               Matchup, Top, PlayResult, Absent)>>)).rows[1]

\* C14: every record produced by flattening, whether a pitch/call record or
\* a walk-by-count record, has exactly the same set of field names: the
\* records of one game share it among themselves and with the records of
\* another game, so no field is present in one record shape and absent in
\* the other.
C14_OneFieldNameSet ==
    LET P(r, pos, res) ==
            /\ DOMAIN r = FieldNamesOfOtherGame
            /\ \A k \in 1..Len(RowsOf(res)) : DOMAIN RowsOf(res)[k] = DOMAIN r
    IN  ForEachRecord(P)

====
